---- MODULE Spec2Model ----
(***************************************************************************)
(* Model of the derived-variable pipeline of src/temp2.py:                 *)
(* HorseRacingVariableCreator.compute_derived_variables and the variable   *)
(* creators it calls.                                                      *)
(*                                                                         *)
(* Dates are day numbers (a difference of dates is a number of days).      *)
(* A Race object is a record; its field `id` stands for the identity of    *)
(* the Python object (two Race objects with equal fields are two objects). *)
(* A float rate c / n is the fraction c/n in lowest terms.                 *)
(***************************************************************************)
EXTENDS Integers, Sequences, FiniteSets, TLC

VARIABLES
    all_races,          \* the argument of compute_derived_variables (sorted in place)
    pc,                 \* where the call is: "sort", "body", "return", "done", "raised"
    idx,                \* position of the for loop of line 175 in all_races
    step,               \* position in the loop body (index in LoopBody)
    race_stats,         \* local race_stats (line 176)
    prior_races,        \* local prior_races (lines 179, 184)
    called,             \* the creators called so far in this iteration (lines 181, 186)
    horse_races_map,    \* line 169
    jockey_races_map,   \* line 170
    race_group_map,     \* line 171
    enhanced_races,     \* line 173
    result,             \* the value returned at line 197
    exc                 \* the exception that ended the call, "none" when there is none

vars == <<all_races, pc, idx, step, race_stats, prior_races, called, horse_races_map,
          jockey_races_map, race_group_map, enhanced_races, result, exc>>

-----------------------------------------------------------------------------
(* Bounds of the inputs *)

MaxLen == 3
MaxDate == 2
MaxRaceIndex == 2
SeasonStart == 2
MaxHist == 3

Horses == {"H1", "H2"}
Jockeys == {"J1", "J2"}
Dates == 1..MaxDate
RaceIndexes == 1..MaxRaceIndex
\* finishing codes of the driver's inputs: a first, a third, a withdrawal
PlaCodes == {"01", "03", "WV"}
\* finishing codes of the synthetic histories given to one creator
AllPlaCodes == {"01", "02", "03", "05", "WV"}

\* the season of a race day: the days before SeasonStart are one season,
\* the later days the next one
SeasonOf(d) == IF d < SeasonStart THEN "2024-25" ELSE "2025-26"

-----------------------------------------------------------------------------
(* Data classes *)

\* Race.__init__: the fields the pipeline reads
Race(i, h, j, d, ri, p) ==
    [id |-> i, horse_id |-> h, jockey |-> j, date |-> d, race_index |-> ri,
     season |-> SeasonOf(d), pla |-> p]

RECURSIVE GCD(_, _)
GCD(a, b) == IF b = 0 THEN a ELSE GCD(b, a % b)

\* the float c / n, n > 0
Div(c, n) == [num |-> c \div GCD(c, n), den |-> n \div GCD(c, n)]

\* the float 0.0
Zero == [num |-> 0, den |-> 1]

\* np.log1p and np.sqrt, kept symbolic; log1p(0) = sqrt(0) = 0.0
Log1p(d) == [fn |-> "log1p", of |-> d]
Sqrt(d) == [fn |-> "sqrt", of |-> d]

\* RaceWithStats.__init__: the fields of the Race and the defaults of the statistics
RaceWithStats(original) ==
    [id |-> original.id, horse_id |-> original.horse_id, jockey |-> original.jockey,
     date |-> original.date, race_index |-> original.race_index,
     season |-> original.season, pla |-> original.pla,
     num_races_run |-> 0, num_races_top1 |-> 0, num_races_top2 |-> 0,
     num_races_top3 |-> 0,
     percent_races_top1 |-> Zero, percent_races_top2 |-> Zero,
     percent_races_top3 |-> Zero,
     num_races_run_seasonal |-> 0,
     days_since_last_run |-> 0, days_since_last_run_log |-> Log1p(0),
     days_since_last_run_sqrt |-> Sqrt(0),
     jokey_num_races_run |-> 0]

\* the names of the statistics
StatFields ==
    {"num_races_run", "num_races_top1", "num_races_top2", "num_races_top3",
     "percent_races_top1", "percent_races_top2", "percent_races_top3",
     "num_races_run_seasonal", "days_since_last_run", "days_since_last_run_log",
     "days_since_last_run_sqrt", "jokey_num_races_run"}

\* the value of race_stats before the first iteration binds it
NoRace == Race(0, "none", "none", 0, 0, "none")
NoStats == RaceWithStats(NoRace)

-----------------------------------------------------------------------------
(* Variable creators *)

\* Counter(...)[code]: how many entries of prior whose pla is one of the three
\* placement codes have the finishing code `code`
Counts(prior, code) ==
    Cardinality({k \in 1..Len(prior) :
                    prior[k].pla \in {"01", "02", "03"} /\ prior[k].pla = code})

\* the creator counting as runs the placed entries only
NumRacesRunPlacedOnly(rs, prior) ==
    LET c1 == Counts(prior, "01")
        c2 == Counts(prior, "02")
        c3 == Counts(prior, "03")
        placed == c1 + c2 + c3
    IN  [rs EXCEPT !.num_races_run = placed,
                   !.num_races_top1 = c1,
                   !.num_races_top2 = c1 + c2,
                   !.num_races_top3 = placed,
                   !.percent_races_top1 = IF placed = 0 THEN Zero ELSE Div(c1, placed),
                   !.percent_races_top2 =
                        IF placed = 0 THEN Zero ELSE Div(c1 + c2, placed),
                   !.percent_races_top3 = IF placed = 0 THEN Zero ELSE Div(placed, placed)]

\* the creator counting as runs the entries of the season of the record
NumRacesRunThisSeason(rs, prior) ==
    LET num_races_run ==
            Cardinality({k \in 1..Len(prior) : prior[k].season = rs.season})
        c1 == Counts(prior, "01")
        c2 == Counts(prior, "02")
        c3 == Counts(prior, "03")
    IN  [rs EXCEPT !.num_races_run = num_races_run,
                   !.num_races_top1 = c1,
                   !.num_races_top2 = c1 + c2,
                   !.num_races_top3 = c1 + c2 + c3,
                   !.percent_races_top1 = Div(c1, Len(prior)),
                   !.percent_races_top2 = Div(c1 + c2, Len(prior)),
                   !.percent_races_top3 = Div(c1 + c2 + c3, Len(prior))]

\* the creator with top2 and top3 not cumulated
NumRacesRunNotCumulated(rs, prior) ==
    LET num_races_run == Len(prior)
        c1 == Counts(prior, "01")
        c2 == Counts(prior, "02")
        c3 == Counts(prior, "03")
    IN  [rs EXCEPT !.num_races_run = num_races_run,
                   !.num_races_top1 = c1,
                   !.num_races_top2 = c2,
                   !.num_races_top3 = c3,
                   !.percent_races_top1 = Div(c1, num_races_run),
                   !.percent_races_top2 = Div(c2, num_races_run),
                   !.percent_races_top3 = Div(c3, num_races_run)]

_compute_num_races_run(rs, prior) ==
    LET num_races_run == Len(prior)
        c1 == Counts(prior, "01")
        c2 == Counts(prior, "02")
        c3 == Counts(prior, "03")
        counted == [rs EXCEPT !.num_races_run = num_races_run,
                              !.num_races_top1 = c1,
                              !.num_races_top2 = c1 + c2,
                              !.num_races_top3 = c1 + c2 + c3]
    IN  IF num_races_run = 0
        THEN counted
        ELSE [counted EXCEPT !.percent_races_top1 = Div(c1, num_races_run),
                             !.percent_races_top2 = Div(c1 + c2, num_races_run),
                             !.percent_races_top3 = Div(c1 + c2 + c3, num_races_run)]

_compute_num_races_run_seasonal(rs, prior) ==
    [rs EXCEPT !.num_races_run_seasonal =
        Cardinality({k \in 1..Len(prior) : prior[k].season = rs.season})]

\* the creator reading the first entry of the history, not the last
DaysSinceFirstRun(rs, prior) ==
    IF prior = <<>>
    THEN rs
    ELSE LET days_since_last_run == rs.date - prior[1].date
         IN  [rs EXCEPT !.days_since_last_run = days_since_last_run,
                        !.days_since_last_run_log = Log1p(days_since_last_run),
                        !.days_since_last_run_sqrt = Sqrt(days_since_last_run)]

_compute_days_since_last_run(rs, prior) ==
    IF prior = <<>>
    THEN rs
    ELSE LET prev_date == prior[Len(prior)].date
             curr_date == rs.date
             days_since_last_run == curr_date - prev_date
         IN  [rs EXCEPT !.days_since_last_run = days_since_last_run,
                        !.days_since_last_run_log = Log1p(days_since_last_run),
                        !.days_since_last_run_sqrt = Sqrt(days_since_last_run)]

_compute_jockey_num_races_run(rs, prior) ==
    [rs EXCEPT !.jokey_num_races_run =
        Cardinality({k \in 1..Len(prior) : prior[k].season = rs.season})]

\* HorseRacingVariableCreator.__init__: the two lists of creators
variable_creators ==
    <<"_compute_num_races_run", "_compute_num_races_run_seasonal",
      "_compute_days_since_last_run">>
jockey_variable_creators == <<"_compute_jockey_num_races_run">>

\* func(race_stats, prior_races): the statistics after the call
Call(func, rs, prior) ==
    CASE func = "_compute_num_races_run" -> _compute_num_races_run(rs, prior)
      [] func = "_compute_num_races_run_seasonal" ->
            _compute_num_races_run_seasonal(rs, prior)
      [] func = "_compute_days_since_last_run" ->
            _compute_days_since_last_run(rs, prior)
      [] func = "_compute_jockey_num_races_run" ->
            _compute_jockey_num_races_run(rs, prior)

\* the exception func(race_stats, prior_races) raises: the division of line 129
\* and the index of line 140 fail on an empty list
Raises(func, rs, prior) ==
    CASE func = "_compute_num_races_run" /\ Len(prior) = 0 -> "ZeroDivisionError"
      [] func = "_compute_days_since_last_run" /\ Len(prior) = 0 -> "IndexError"
      [] OTHER -> "none"

-----------------------------------------------------------------------------
(* Sorting and the history maps *)

\* the sort key of line 166, (r.date, r.race_index), compared as Python
\* compares tuples
KeyOf(r) == <<r.date, r.race_index>>
KeyLess(a, b) == a[1] < b[1] \/ (a[1] = b[1] /\ a[2] < b[2])

\* x put in the sorted list s in front of the entries of equal key
RECURSIVE InsertBeforeEqual(_, _)
InsertBeforeEqual(s, x) ==
    IF s = <<>> THEN <<x>>
    ELSE IF ~KeyLess(KeyOf(Head(s)), KeyOf(x))
         THEN <<x>> \o s
         ELSE <<Head(s)>> \o InsertBeforeEqual(Tail(s), x)

\* x put in the sorted list s behind every entry whose key is not greater
RECURSIVE InsertByKey(_, _)
InsertByKey(s, x) ==
    IF s = <<>> THEN <<x>>
    ELSE IF KeyLess(KeyOf(x), KeyOf(Head(s)))
         THEN <<x>> \o s
         ELSE <<Head(s)>> \o InsertByKey(Tail(s), x)

RECURSIVE SortFrom(_, _)
SortFrom(sorted, rest) ==
    IF rest = <<>> THEN sorted
    ELSE SortFrom(InsertByKey(sorted, Head(rest)), Tail(rest))

\* the list left in the caller's order
Unsorted(races) == races

\* list.sort(key=...): ascending by key, entries of equal key keep their order
SortedRaces(races) == SortFrom(<<>>, races)

\* defaultdict(list), empty
EmptyMap == [k \in {} |-> <<>>]

\* map.get(key, [])
Get(map, key) == IF key \in DOMAIN map THEN map[key] ELSE <<>>

\* x put at the head of the list of key: map[key].insert(0, x)
PrependTo(map, key, x) ==
    [k \in DOMAIN map \cup {key} |->
        IF k = key THEN <<x>> \o Get(map, key) ELSE map[k]]

\* the list of key replaced by the list of x alone: map[key] = [x]
ReplaceBy(map, key, x) ==
    [k \in DOMAIN map \cup {key} |-> IF k = key THEN <<x>> ELSE map[k]]

\* map[key].append(x) on a defaultdict(list)
AppendTo(map, key, x) ==
    [k \in DOMAIN map \cup {key} |->
        IF k = key THEN Append(Get(map, key), x) ELSE map[k]]

-----------------------------------------------------------------------------
(* The body of the for loop of line 175, on the locals of the call *)

\* the loop body with lines 188-190 moved before the creators
LoopBodyAppendFirst == <<"new", "append", "horse", "jockey">>

\* the statements of the loop body, in the order of the source
LoopBody == <<"new", "horse", "jockey", "append">>

\* the creators called whatever the history
AlwaysCalled(prior) == TRUE

\* the guard of lines 180 and 185: `if prior_races:`
HasHistory(prior) == prior # <<>>

\* lines 178-181 and 183-186: each creator of the list is called on the history
\* when the history is not empty; an exception ends the loop
RECURSIVE RunCreators(_, _, _, _)
RunCreators(creators, rs, prior, calls) ==
    IF creators = <<>>
    THEN [race_stats |-> rs, called |-> calls, exc |-> "none"]
    ELSE IF HasHistory(prior)
         THEN IF Raises(Head(creators), rs, prior) # "none"
              THEN [race_stats |-> rs, called |-> Append(calls, Head(creators)),
                    exc |-> Raises(Head(creators), rs, prior)]
              ELSE RunCreators(Tail(creators), Call(Head(creators), rs, prior),
                               prior, Append(calls, Head(creators)))
         ELSE RunCreators(Tail(creators), rs, prior, calls)

\* the loop body with the jockey creators given the history of the horse
ExecStepJockeyOnHorseHistory(label, L, race) ==
    CASE label = "new" ->
            [L EXCEPT !.race_stats = RaceWithStats(race), !.called = <<>>]
      [] label = "horse" ->
            LET prior == Get(L.horse_races_map, L.race_stats.horse_id)
                out == RunCreators(variable_creators, L.race_stats, prior, L.called)
            IN  [L EXCEPT !.prior_races = prior,
                          !.race_stats = out.race_stats,
                          !.called = out.called,
                          !.exc = out.exc]
      [] label = "jockey" ->
            LET prior == Get(L.horse_races_map, L.race_stats.horse_id)
                out == RunCreators(jockey_variable_creators, L.race_stats, prior,
                                   L.called)
            IN  [L EXCEPT !.prior_races = prior,
                          !.race_stats = out.race_stats,
                          !.called = out.called,
                          !.exc = out.exc]
      [] label = "append" ->
            [L EXCEPT
                !.race_group_map =
                    AppendTo(L.race_group_map,
                             <<L.race_stats.date, L.race_stats.race_index>>,
                             L.race_stats),
                !.horse_races_map = AppendTo(L.horse_races_map, race.horse_id, race),
                !.jockey_races_map = AppendTo(L.jockey_races_map, race.jockey, race)]

\* the loop body with the histories looked up as horse_races_map[horse_id] and
\* jockey_races_map[jockey]: on a defaultdict(list) the lookup adds the key
ExecStepIndexLookup(label, L, race) ==
    CASE label = "new" ->
            [L EXCEPT !.race_stats = RaceWithStats(race), !.called = <<>>]
      [] label = "horse" ->
            LET prior == Get(L.horse_races_map, L.race_stats.horse_id)
                out == RunCreators(variable_creators, L.race_stats, prior, L.called)
            IN  [L EXCEPT !.prior_races = prior,
                          !.race_stats = out.race_stats,
                          !.called = out.called,
                          !.exc = out.exc,
                          !.horse_races_map =
                              [k \in DOMAIN L.horse_races_map
                                     \cup {L.race_stats.horse_id} |->
                                  Get(L.horse_races_map, k)]]
      [] label = "jockey" ->
            LET prior == Get(L.jockey_races_map, L.race_stats.jockey)
                out == RunCreators(jockey_variable_creators, L.race_stats, prior,
                                   L.called)
            IN  [L EXCEPT !.prior_races = prior,
                          !.race_stats = out.race_stats,
                          !.called = out.called,
                          !.exc = out.exc,
                          !.jockey_races_map =
                              [k \in DOMAIN L.jockey_races_map
                                     \cup {L.race_stats.jockey} |->
                                  Get(L.jockey_races_map, k)]]
      [] label = "append" ->
            [L EXCEPT
                !.race_group_map =
                    AppendTo(L.race_group_map,
                             <<L.race_stats.date, L.race_stats.race_index>>,
                             L.race_stats),
                !.horse_races_map = AppendTo(L.horse_races_map, race.horse_id, race),
                !.jockey_races_map = AppendTo(L.jockey_races_map, race.jockey, race)]

\* one statement of the loop body: L holds the locals and the maps, race is the
\* loop variable
ExecStep(label, L, race) ==
    CASE label = "new" ->
            [L EXCEPT !.race_stats = RaceWithStats(race), !.called = <<>>]
      [] label = "horse" ->
            LET prior == Get(L.horse_races_map, L.race_stats.horse_id)
                out == RunCreators(variable_creators, L.race_stats, prior, L.called)
            IN  [L EXCEPT !.prior_races = prior,
                          !.race_stats = out.race_stats,
                          !.called = out.called,
                          !.exc = out.exc]
      [] label = "jockey" ->
            LET prior == Get(L.jockey_races_map, L.race_stats.jockey)
                out == RunCreators(jockey_variable_creators, L.race_stats, prior,
                                   L.called)
            IN  [L EXCEPT !.prior_races = prior,
                          !.race_stats = out.race_stats,
                          !.called = out.called,
                          !.exc = out.exc]
      [] label = "append" ->
            [L EXCEPT
                !.race_group_map =
                    AppendTo(L.race_group_map,
                             <<L.race_stats.date, L.race_stats.race_index>>,
                             L.race_stats),
                !.horse_races_map = AppendTo(L.horse_races_map, race.horse_id, race),
                !.jockey_races_map = AppendTo(L.jockey_races_map, race.jockey, race)]

\* the locals at line 173, before the loop
InitialLocals ==
    [race_stats |-> NoStats, prior_races |-> <<>>, called |-> <<>>,
     horse_races_map |-> EmptyMap, jockey_races_map |-> EmptyMap,
     race_group_map |-> EmptyMap, enhanced_races |-> <<>>, exc |-> "none"]

\* the locals of the call in the current state
Locals ==
    [race_stats |-> race_stats, prior_races |-> prior_races, called |-> called,
     horse_races_map |-> horse_races_map, jockey_races_map |-> jockey_races_map,
     race_group_map |-> race_group_map, enhanced_races |-> enhanced_races,
     exc |-> exc]

\* the statements LoopBody[k..] of one iteration, run to the end of the
\* iteration or to an exception
RECURSIVE ExecFrom(_, _, _)
ExecFrom(k, L, race) ==
    IF k > Len(LoopBody) \/ L.exc # "none" THEN L
    ELSE ExecFrom(k + 1, ExecStep(LoopBody[k], L, race), race)

\* the for loop of line 175 over `races`
RECURSIVE LoopFrom(_, _)
LoopFrom(L, races) ==
    IF races = <<>> \/ L.exc # "none" THEN L
    ELSE LoopFrom(ExecFrom(1, L, Head(races)), Tail(races))

\* a whole call compute_derived_variables(races): the locals at line 197
Run(races) == LoopFrom(InitialLocals, SortedRaces(races))

-----------------------------------------------------------------------------
(* compute_derived_variables, statement by statement *)

RawRaces == [horse_id : Horses, jockey : Jockeys, date : Dates,
             race_index : RaceIndexes, pla : PlaCodes]

\* the list a caller passes: Race objects in any order, the id of each its
\* position in the list
InputOf(l) ==
    [i \in 1..Len(l) |-> Race(i, l[i].horse_id, l[i].jockey, l[i].date,
                              l[i].race_index, l[i].pla)]

Init ==
    /\ \E n \in 0..MaxLen : \E l \in [1..n -> RawRaces] : all_races = InputOf(l)
    /\ pc = "sort"
    /\ idx = 0
    /\ step = 0
    /\ race_stats = NoStats
    /\ prior_races = <<>>
    /\ called = <<>>
    /\ horse_races_map = EmptyMap
    /\ jockey_races_map = EmptyMap
    /\ race_group_map = EmptyMap
    /\ enhanced_races = <<>>
    /\ result = <<>>
    /\ exc = "none"

\* lines 166-173: the sort in place and the empty maps
Sort ==
    /\ pc = "sort"
    /\ all_races' = SortedRaces(all_races)
    /\ pc' = IF all_races = <<>> THEN "return" ELSE "body"
    /\ idx' = 1
    /\ step' = 1
    /\ UNCHANGED <<race_stats, prior_races, called, horse_races_map,
                   jockey_races_map, race_group_map, enhanced_races, result, exc>>

\* the call is at the statement `label` of the iteration on all_races[idx]
At(label) == pc = "body" /\ LoopBody[step] = label

\* the statement has left the locals L: the loop moves on to the next statement,
\* to the next race or to line 197, and an exception ends the call
Becomes(L) ==
    LET last == step = Len(LoopBody)
    IN  /\ race_stats' = L.race_stats
        /\ prior_races' = L.prior_races
        /\ called' = L.called
        /\ horse_races_map' = L.horse_races_map
        /\ jockey_races_map' = L.jockey_races_map
        /\ race_group_map' = L.race_group_map
        /\ enhanced_races' = L.enhanced_races
        /\ exc' = L.exc
        /\ IF L.exc # "none"
           THEN pc' = "raised" /\ UNCHANGED <<idx, step>>
           ELSE /\ step' = IF last THEN 1 ELSE step + 1
                /\ idx' = IF last THEN idx + 1 ELSE idx
                /\ pc' = IF last /\ idx = Len(all_races) THEN "return" ELSE "body"

\* line 176
NewRaceStats ==
    /\ At("new")
    /\ Becomes(ExecStep("new", Locals, all_races[idx]))
    /\ UNCHANGED <<all_races, result>>

\* lines 178-181
HorseCreators ==
    /\ At("horse")
    /\ Becomes(ExecStep("horse", Locals, all_races[idx]))
    /\ UNCHANGED <<all_races, result>>

\* lines 183-186
JockeyCreators ==
    /\ At("jockey")
    /\ Becomes(ExecStep("jockey", Locals, all_races[idx]))
    /\ UNCHANGED <<all_races, result>>

\* lines 188-190
AppendHistories ==
    /\ At("append")
    /\ Becomes(ExecStep("append", Locals, all_races[idx]))
    /\ UNCHANGED <<all_races, result>>

\* line 197
Return ==
    /\ pc = "return"
    /\ result' = enhanced_races
    /\ pc' = "done"
    /\ UNCHANGED <<all_races, idx, step, race_stats, prior_races, called,
                   horse_races_map, jockey_races_map, race_group_map,
                   enhanced_races, exc>>

Next ==
    \/ Sort
    \/ NewRaceStats
    \/ HorseCreators
    \/ JockeyCreators
    \/ AppendHistories
    \/ Return

Spec == Init /\ [][Next]_vars

-----------------------------------------------------------------------------
(* One creator called on a synthetic history *)

\* a history of one horse as the driver builds them: up to MaxHist earlier
\* races in chronological order, with any finishing codes
HistoryOf(l) ==
    [i \in 1..Len(l) |-> Race(i, "H1", "J1", l[i].date, 1, l[i].pla)]

Chronological(l) == \A i \in 1..(Len(l) - 1) : l[i].date <= l[i + 1].date

InitCreator ==
    /\ \E n \in 0..MaxHist : \E l \in [1..n -> [date : Dates, pla : AllPlaCodes]] :
          /\ Chronological(l)
          /\ prior_races = HistoryOf(l)
          /\ all_races = Append(HistoryOf(l), Race(n + 1, "H1", "J1", MaxDate, 2, "01"))
          /\ idx = n + 1
          /\ race_stats = RaceWithStats(Race(n + 1, "H1", "J1", MaxDate, 2, "01"))
    /\ pc = "creator"
    /\ step = 0
    /\ called = <<>>
    /\ horse_races_map = EmptyMap
    /\ jockey_races_map = EmptyMap
    /\ race_group_map = EmptyMap
    /\ enhanced_races = <<>>
    /\ result = <<>>
    /\ exc = "none"

\* func(race_stats, prior_races), called directly
CallDirectly(func) ==
    /\ pc = "creator"
    /\ called' = <<func>>
    /\ exc' = Raises(func, race_stats, prior_races)
    /\ race_stats' = IF Raises(func, race_stats, prior_races) = "none"
                     THEN Call(func, race_stats, prior_races)
                     ELSE race_stats
    /\ pc' = IF Raises(func, race_stats, prior_races) = "none"
             THEN "created" ELSE "raised"
    /\ UNCHANGED <<all_races, idx, step, prior_races, horse_races_map,
                   jockey_races_map, race_group_map, enhanced_races, result>>

CallNumRacesRun ==
    /\ pc = "creator"
    /\ CallDirectly("_compute_num_races_run")

CallNumRacesRunSeasonal ==
    /\ pc = "creator"
    /\ CallDirectly("_compute_num_races_run_seasonal")

CallDaysSinceLastRun ==
    /\ pc = "creator"
    /\ CallDirectly("_compute_days_since_last_run")

CallJockeyNumRacesRun ==
    /\ pc = "creator"
    /\ CallDirectly("_compute_jockey_num_races_run")

NextCreator ==
    \/ CallNumRacesRun
    \/ CallNumRacesRunSeasonal
    \/ CallDaysSinceLastRun
    \/ CallJockeyNumRacesRun

SpecCreator == InitCreator /\ [][NextCreator]_vars

-----------------------------------------------------------------------------
(* Vocabulary of the properties *)

\* the record r (by identity) is an entry of the list h
InHist(h, r) == \E k \in 1..Len(h) : h[k].id = r.id

\* how many entries of h are the record r
Occurrences(h, r) == Cardinality({k \in 1..Len(h) : h[k].id = r.id})

\* the call is inside the iteration on all_races[idx]
InBody == pc = "body"

\* the statements of the iteration already executed contain `label`
Done(label) == InBody /\ \E k \in 1..(step - 1) : LoopBody[k] = label

\* the creators of both lists have been invoked for all_races[idx], and its
\* iteration is not over
Enriched == Done("horse") /\ Done("jockey")

\* the number of iterations that are over
Processed ==
    CASE pc = "body" -> idx - 1
      [] pc \in {"return", "done"} -> Len(all_races)
      [] OTHER -> 0

\* the list as the caller passed it (the id of a record is its position there)
Original ==
    [i \in 1..Len(all_races) |->
        CHOOSE r \in {all_races[k] : k \in 1..Len(all_races)} : r.id = i]

\* the enriched records a race-group map holds, and the one made from record r
AllEnriched(gm) == UNION {{gm[g][k] : k \in 1..Len(gm[g])} : g \in DOMAIN gm}
EnrichedOf(gm, r) == CHOOSE e \in AllEnriched(gm) : e.id = r.id

\* the statistics of an enriched record
StatsOf(e) == [f \in StatFields |-> e[f]]

\* the step-by-step call and the whole call agree
RunAgrees ==
    pc \in {"return", "done"} =>
        /\ Run(Original).horse_races_map = horse_races_map
        /\ Run(Original).jockey_races_map = jockey_races_map
        /\ Run(Original).race_group_map = race_group_map
        /\ Run(Original).enhanced_races = enhanced_races

-----------------------------------------------------------------------------
(* C1 *)

\* C1: the history handed to the creators of a record r never holds r; as long
\* as the creators of both lists have not all been invoked for r, r is an entry
\* of no horse history and of no jockey history; once the iteration on r is
\* over, r is in the horse history of its horse id and in the jockey history of
\* its jockey.
C1_OwnRecordAfterEnrichment ==
    /\ InBody => ~InHist(prior_races, all_races[idx])
    /\ (InBody /\ ~Enriched) =>
          LET r == all_races[idx]
          IN  /\ \A h \in DOMAIN horse_races_map : ~InHist(horse_races_map[h], r)
              /\ \A j \in DOMAIN jockey_races_map : ~InHist(jockey_races_map[j], r)
    /\ \A k \in 1..Processed :
          /\ InHist(Get(horse_races_map, all_races[k].horse_id), all_races[k])
          /\ InHist(Get(jockey_races_map, all_races[k].jockey), all_races[k])

\* the creators of both lists ran on non-empty histories for the current record,
\* whose predecessor is in the histories
C1_Witness ==
    /\ Enriched
    /\ Len(called) = Len(variable_creators) + Len(jockey_variable_creators)
    /\ Get(horse_races_map, all_races[idx].horse_id) # <<>>
    /\ prior_races = Get(jockey_races_map, all_races[idx].jockey)
    /\ idx > 1
    /\ InHist(Get(horse_races_map, all_races[idx - 1].horse_id), all_races[idx - 1])

-----------------------------------------------------------------------------
(* C2 *)

\* C2: every entry of the horse history and of the jockey history used to
\* enrich a record r has a (date, race_index) key strictly smaller than r's.
C2_HistoryStrictlyEarlier ==
    Enriched =>
        LET r == all_races[idx]
            used == Get(horse_races_map, r.horse_id) \o Get(jockey_races_map, r.jockey)
        IN  \A k \in 1..Len(used) : KeyLess(KeyOf(used[k]), KeyOf(r))

-----------------------------------------------------------------------------
(* C3 *)

\* C3: the returned list holds exactly one enriched record for each input
\* record, and nothing else.
C3_ReturnsOnePerRecord ==
    pc = "done" =>
        /\ Len(result) = Len(all_races)
        /\ \A k \in 1..Len(all_races) : Occurrences(result, all_races[k]) = 1

-----------------------------------------------------------------------------
(* C4 *)

\* the input A without the records dated after r, and with p as the outcome of r.
\* Two inputs that differ only in the outcome of r and in the records dated after
\* r have the same reduced inputs.
Reduced(A, r, p) ==
    LET NotLater(x) == x.date <= r.date
        kept == SelectSeq(A, NotLater)
    IN  [k \in 1..Len(kept) |->
            IF kept[k].id = r.id THEN [kept[k] EXCEPT !.pla = p] ELSE kept[k]]

\* C4: the statistics of a record r are those r gets in the run on the input
\* reduced to the records not dated after r, whatever the outcome of r there:
\* so two inputs that differ only in the outcome of r and in the records dated
\* after r give r the same statistics.
C4_NoLookahead ==
    Enriched =>
        \A p \in PlaCodes :
            StatsOf(race_stats) =
                StatsOf(EnrichedOf(Run(Reduced(Original, all_races[idx], p)).race_group_map,
                                   all_races[idx]))

\* a record with a history is enriched, and the caller listed before it a later
\* race of its horse and a later race of its jockey
C4_Witness ==
    /\ Enriched
    /\ race_stats.num_races_run > 0
    /\ race_stats.jokey_num_races_run > 0
    /\ \E k \in 1..Len(all_races) :
          /\ all_races[k].date > all_races[idx].date
          /\ all_races[k].id < all_races[idx].id
          /\ all_races[k].horse_id = all_races[idx].horse_id
          /\ all_races[k].jockey = all_races[idx].jockey

-----------------------------------------------------------------------------
(* C5 *)

\* the orderings of the list A
Orderings(A) ==
    {[i \in 1..Len(A) |-> A[f[i]]] : f \in Permutations(1..Len(A))}

\* C5: every ordering of the input gives every record the statistics this run
\* gave it.
C5_SameUnderPermutation ==
    pc = "done" =>
        \A P \in Orderings(Original) : \A k \in 1..Len(all_races) :
            StatsOf(EnrichedOf(Run(P).race_group_map, all_races[k])) =
                StatsOf(EnrichedOf(race_group_map, all_races[k]))

-----------------------------------------------------------------------------
(* C6 *)

\* how many entries of the history H finished with the code `code`
Finished(H, code) == Cardinality({k \in 1..Len(H) : H[k].pla = code})

\* the float q is c / n
IsRate(q, c, n) == q.den > 0 /\ q.num * n = c * q.den

\* C6: called on a non-empty history H with c1 firsts, c2 seconds and c3 thirds,
\* the run-count creator sets total_runs = |H|, top1 = c1, top2 = c1 + c2,
\* top3 = c1 + c2 + c3 and the three rates to these counts over |H|.
C6_RunCounts ==
    (pc = "created" /\ called = <<"_compute_num_races_run">>) =>
        LET H == prior_races
            c1 == Finished(H, "01")
            c2 == Finished(H, "02")
            c3 == Finished(H, "03")
        IN  /\ Len(H) > 0
            /\ race_stats.num_races_run = Len(H)
            /\ race_stats.num_races_top1 = c1
            /\ race_stats.num_races_top2 = c1 + c2
            /\ race_stats.num_races_top3 = c1 + c2 + c3
            /\ IsRate(race_stats.percent_races_top1, c1, Len(H))
            /\ IsRate(race_stats.percent_races_top2, c1 + c2, Len(H))
            /\ IsRate(race_stats.percent_races_top3, c1 + c2 + c3, Len(H))

\* the example: positions "01", "03", "05" give 3 runs, 1, 1 and 2 placings,
\* rates 1/3 and 2/3
C6_Witness ==
    /\ pc = "created"
    /\ called = <<"_compute_num_races_run">>
    /\ [k \in 1..Len(prior_races) |-> prior_races[k].pla] = <<"01", "03", "05">>
    /\ race_stats.num_races_run = 3
    /\ race_stats.num_races_top1 = 1
    /\ race_stats.num_races_top2 = 1
    /\ race_stats.num_races_top3 = 2
    /\ race_stats.percent_races_top1 = [num |-> 1, den |-> 3]
    /\ race_stats.percent_races_top3 = [num |-> 2, den |-> 3]

-----------------------------------------------------------------------------
(* C7 *)

\* the statistics the creators of each list write
HorseStatFields == StatFields \ {"jokey_num_races_run"}
JockeyStatFields == {"jokey_num_races_run"}

\* the statistics of `fields` are the defaults of RaceWithStats.__init__
AtDefault(e, fields) == \A f \in fields : e[f] = RaceWithStats(all_races[idx])[f]

\* some creator of the list has been called in this iteration
SomeCalled(creators) ==
    \E k \in 1..Len(called) : \E c \in 1..Len(creators) : called[k] = creators[c]

\* C7: no exception is raised in any run; a record enriched on an empty horse
\* history has had no horse creator called and keeps the defaults of the horse
\* statistics, and likewise for an empty jockey history and the jockey
\* statistic.
C7_EmptyHistorySkipped ==
    /\ pc # "raised"
    /\ exc = "none"
    /\ (Done("horse") /\ Get(horse_races_map, all_races[idx].horse_id) = <<>>) =>
          /\ ~SomeCalled(variable_creators)
          /\ AtDefault(race_stats, HorseStatFields)
    /\ (Done("jockey") /\ Get(jockey_races_map, all_races[idx].jockey) = <<>>) =>
          /\ ~SomeCalled(jockey_variable_creators)
          /\ AtDefault(race_stats, JockeyStatFields)

\* a record that is not the first of the run is enriched on an empty horse
\* history and an empty jockey history
C7_Witness ==
    /\ Enriched
    /\ idx > 1
    /\ Get(horse_races_map, all_races[idx].horse_id) = <<>>
    /\ Get(jockey_races_map, all_races[idx].jockey) = <<>>
    /\ called = <<>>
    /\ AtDefault(race_stats, StatFields)

-----------------------------------------------------------------------------
(* C8 *)

\* the entries of H with one of the three placement codes
Placed(H) == {k \in 1..Len(H) : H[k].pla \in {"01", "02", "03"}}

\* C8: a record with a non-placement code is in the histories once its
\* iteration is over; the runs of a record count every entry of its horse
\* history and its top counts only the placed entries, so that a history without
\* placed entries gives top1 = top2 = top3 = 0 and rates 0.0.
C8_NonPlacementCounted ==
    /\ \A k \in 1..Processed :
          all_races[k].pla \notin {"01", "02", "03"} =>
              /\ InHist(Get(horse_races_map, all_races[k].horse_id), all_races[k])
              /\ InHist(Get(jockey_races_map, all_races[k].jockey), all_races[k])
    /\ (Done("horse") /\ ~Done("append")
            /\ Get(horse_races_map, all_races[idx].horse_id) # <<>>) =>
          LET H == Get(horse_races_map, all_races[idx].horse_id)
          IN  /\ race_stats.num_races_run = Len(H)
              /\ race_stats.num_races_top1 <= race_stats.num_races_top2
              /\ race_stats.num_races_top2 <= race_stats.num_races_top3
              /\ race_stats.num_races_top3 = Cardinality(Placed(H))
              /\ Placed(H) = {} =>
                    /\ race_stats.num_races_top1 = 0
                    /\ race_stats.num_races_top2 = 0
                    /\ race_stats.num_races_top3 = 0
                    /\ race_stats.percent_races_top1 = Zero
                    /\ race_stats.percent_races_top2 = Zero
                    /\ race_stats.percent_races_top3 = Zero

\* a record is enriched on a history of two withdrawals
C8_Witness ==
    /\ Done("horse")
    /\ ~Done("append")
    /\ Len(Get(horse_races_map, all_races[idx].horse_id)) = 2
    /\ Placed(Get(horse_races_map, all_races[idx].horse_id)) = {}
    /\ race_stats.num_races_run = 2
    /\ race_stats.num_races_top3 = 0
    /\ race_stats.percent_races_top3 = Zero

-----------------------------------------------------------------------------
(* C9 *)

\* C9: for a record r enriched on a non-empty horse history, days_since_last_run
\* is the date of r minus the date of the last entry of the history, no entry of
\* the history and no record of the horse processed before r is dated after that
\* last entry, and the value is a natural number.
C9_DaysSinceLastRun ==
    (Done("horse") /\ ~Done("append")
        /\ Get(horse_races_map, all_races[idx].horse_id) # <<>>) =>
        LET r == all_races[idx]
            H == Get(horse_races_map, r.horse_id)
            last == H[Len(H)]
        IN  /\ race_stats.days_since_last_run = r.date - last.date
            /\ \A k \in 1..Len(H) : H[k].date <= last.date
            /\ \A k \in 1..(idx - 1) :
                  all_races[k].horse_id = r.horse_id => all_races[k].date <= last.date
            /\ race_stats.days_since_last_run \in Nat

\* a record is enriched one day after the second run of its horse
C9_Witness ==
    /\ Done("horse")
    /\ ~Done("append")
    /\ Len(Get(horse_races_map, all_races[idx].horse_id)) = 2
    /\ race_stats.days_since_last_run = 1
    /\ all_races[idx].id = 1

-----------------------------------------------------------------------------
(* C10 *)

\* the list A without the record x
Without(A, x) ==
    LET Other(y) == y.id # x.id
    IN  SelectSeq(A, Other)

\* C10: the runs of a record enriched on a non-empty horse history are at least
\* the runs of every record of its horse enriched before it, and at least the
\* runs it gets when one earlier record of its horse is taken out of the input.
C10_TotalRunsMonotone ==
    (Done("horse") /\ ~Done("append")
        /\ Get(horse_races_map, all_races[idx].horse_id) # <<>>) =>
        LET r == all_races[idx]
        IN  /\ \A e \in AllEnriched(race_group_map) :
                  e.horse_id = r.horse_id => e.num_races_run <= race_stats.num_races_run
            /\ \A k \in 1..(idx - 1) :
                  all_races[k].horse_id = r.horse_id =>
                      EnrichedOf(Run(Without(Original, all_races[k])).race_group_map,
                                 r).num_races_run <= race_stats.num_races_run

\* the third record of a horse gets 2 runs after its second record got 1
C10_Witness ==
    /\ Done("horse")
    /\ ~Done("append")
    /\ race_stats.num_races_run = 2
    /\ \E e \in AllEnriched(race_group_map) :
          e.horse_id = all_races[idx].horse_id /\ e.num_races_run = 1

-----------------------------------------------------------------------------
(* C11 *)

-----------------------------------------------------------------------------
(* C12 *)

\* C12: a record enriched on an empty horse history carries no number of days
\* since the last run and 0 runs, and no record enriched on a history carries
\* the same days_since_last_run as it does.
C12_FirstRaceHasNoDays ==
    (Done("horse") /\ ~Done("append")
        /\ Get(horse_races_map, all_races[idx].horse_id) = <<>>) =>
        /\ race_stats.num_races_run = 0
        /\ race_stats.days_since_last_run \notin Int
        /\ \A e \in AllEnriched(race_group_map) :
              e.num_races_run > 0 =>
                  e.days_since_last_run # race_stats.days_since_last_run

-----------------------------------------------------------------------------
(* C13 *)

\* C13: when the driver goes from enriching one record to enriching the next,
\* the key (date, race_index) of the first is smaller than the key of the
\* second, or the keys are equal and the caller listed the first before the
\* second.
C13_EnrichedInKeyOrder ==
    [][(race_stats.id # 0 /\ race_stats'.id # race_stats.id) =>
          \/ KeyLess(KeyOf(race_stats), KeyOf(race_stats'))
          \/ /\ KeyOf(race_stats) = KeyOf(race_stats')
             /\ race_stats.id < race_stats'.id]_vars

\* the third record enriched has the key of the second, which the caller listed
\* before it, and the caller listed the first record enriched last
C13_Witness ==
    /\ Done("new")
    /\ idx = 3
    /\ race_stats.id = all_races[3].id
    /\ KeyOf(all_races[2]) = KeyOf(all_races[3])
    /\ all_races[2].id < all_races[3].id
    /\ KeyLess(KeyOf(all_races[1]), KeyOf(all_races[2]))
    /\ all_races[1].id = 3

-----------------------------------------------------------------------------
(* C14 *)

\* the list a is the beginning of the list b
IsPrefix(a, b) == Len(a) <= Len(b) /\ \A k \in 1..Len(a) : a[k] = b[k]

\* every list of the map m is the beginning of the list of the same key in m2
Grows(m, m2) == \A k \in DOMAIN m : k \in DOMAIN m2 /\ IsPrefix(m[k], m2[k])

\* the position of the record r in the sorted list `races`
PositionIn(races, r) == CHOOSE i \in 1..Len(races) : races[i].id = r.id

\* the entries of every list of the map m are in the order of `races`, and so in
\* non-decreasing key order
InDriverOrder(m, races) ==
    \A key \in DOMAIN m : \A i, j \in 1..Len(m[key]) :
        i < j =>
            /\ PositionIn(races, m[key][i]) < PositionIn(races, m[key][j])
            /\ ~KeyLess(KeyOf(m[key][j]), KeyOf(m[key][i]))

\* C14: every step of the driver leaves each horse history and each jockey
\* history a prefix of what it becomes, and the entries of each history are in
\* the order in which the driver consumed them, which is non-decreasing in
\* (date, race_index).
C14_AppendOnly ==
    [][/\ Grows(horse_races_map, horse_races_map')
       /\ Grows(jockey_races_map, jockey_races_map')
       /\ InDriverOrder(horse_races_map', all_races')
       /\ InDriverOrder(jockey_races_map', all_races')]_vars

\* a jockey history of three entries and horse histories of two and one
C14_Witness ==
    /\ pc = "return"
    /\ \E j \in DOMAIN jockey_races_map : Len(jockey_races_map[j]) = 3
    /\ \E h \in DOMAIN horse_races_map : Len(horse_races_map[h]) = 2
    /\ \E h \in DOMAIN horse_races_map : Len(horse_races_map[h]) = 1
    /\ all_races[1].id = 3

-----------------------------------------------------------------------------
(* C15 *)

\* the fields RaceWithStats copies from the source record
RawFields == DOMAIN NoStats \ StatFields
RawOf(e) == [f \in RawFields |-> e[f]]

\* the creators of a list, as a set
CreatorsOf(creators) == {creators[k] : k \in 1..Len(creators)}

\* the step of the creators of one list, given the history `prior`
CreatorsFrame(creators, prior) ==
    /\ RawOf(race_stats') = RawOf(race_stats)
    /\ RawOf(race_stats') = RawOf(RaceWithStats(all_races[idx]))
    /\ \A func \in CreatorsOf(creators) :
          prior # <<>> => RawOf(Call(func, race_stats, prior)) = RawOf(race_stats)
    /\ all_races' = all_races
    /\ prior_races' = prior
    /\ horse_races_map' = horse_races_map
    /\ jockey_races_map' = jockey_races_map
    /\ race_group_map' = race_group_map

\* the lookup of a key the map does not hold
UnseenFrame(map, mapAfter, key) ==
    key \notin DOMAIN map => prior_races' = <<>> /\ key \notin DOMAIN mapAfter

\* C15: the step that runs the creators of a list changes only the statistics
\* of the enriched record: the fields copied from the source record, the
\* source records, the entries of the history passed to the creators and the
\* three maps stay as they are, and the lookup of an unseen horse or jockey
\* gives the empty history and adds no key.
C15_CreatorsFrame ==
    [][/\ At("horse") =>
            /\ CreatorsFrame(variable_creators,
                   Get(horse_races_map, all_races[idx].horse_id))
            /\ UnseenFrame(horse_races_map, horse_races_map',
                           all_races[idx].horse_id)
       /\ At("jockey") =>
            /\ CreatorsFrame(jockey_variable_creators,
                   Get(jockey_races_map, all_races[idx].jockey))
            /\ UnseenFrame(jockey_races_map, jockey_races_map',
                           all_races[idx].jockey)]_vars

\* the creators of the jockey have run on a history of two, the horse is unseen
\* and the horse map holds other horses
C15_Witness ==
    /\ Enriched
    /\ all_races[idx].horse_id \notin DOMAIN horse_races_map
    /\ DOMAIN horse_races_map # {}
    /\ Len(Get(jockey_races_map, all_races[idx].jockey)) = 2
    /\ called = <<"_compute_jockey_num_races_run">>
    /\ \E f \in StatFields : race_stats[f] # NoStats[f]

-----------------------------------------------------------------------------
(* C16 *)

\* the sum of the lengths of the lists of the map m
RECURSIVE TotalLen(_)
TotalLen(m) ==
    IF DOMAIN m = {}
    THEN 0
    ELSE LET k == CHOOSE k \in DOMAIN m : TRUE
         IN  Len(m[k]) + TotalLen([j \in DOMAIN m \ {k} |-> m[j]])

\* the record r is once in the list of `key` and in no other list of the map m
OnceUnder(m, key, r) ==
    /\ key \in DOMAIN m
    /\ \A k \in DOMAIN m : Occurrences(m[k], r) = IF k = key THEN 1 ELSE 0

\* C16: once the iterations of k records are over, each of them is exactly once
\* in the history of its own horse and in no other, exactly once in the history
\* of its own jockey and in no other, and exactly once in the group of its own
\* (date, race_index); the lengths of the horse histories sum to k, and so do
\* those of the jockey histories and of the groups.
C16_HistoriesPartitionProcessed ==
    /\ \A k \in 1..Processed :
          LET r == all_races[k]
          IN  /\ OnceUnder(horse_races_map, r.horse_id, r)
              /\ OnceUnder(jockey_races_map, r.jockey, r)
              /\ OnceUnder(race_group_map, <<r.date, r.race_index>>, r)
    /\ TotalLen(horse_races_map) = Processed
    /\ TotalLen(jockey_races_map) = Processed
    /\ TotalLen(race_group_map) = Processed

\* three records are over: two horses, two jockeys and two groups
C16_Witness ==
    /\ pc = "return"
    /\ Processed = 3
    /\ Cardinality(DOMAIN horse_races_map) = 2
    /\ Cardinality(DOMAIN jockey_races_map) = 2
    /\ Cardinality(DOMAIN race_group_map) = 2
    /\ all_races[1].horse_id = all_races[3].horse_id
    /\ all_races[1].jockey # all_races[3].jockey
    /\ KeyOf(all_races[2]) = KeyOf(all_races[3])

====
